---- MODULE Spec2Model ----
(***************************************************************************)
(* Model of the testflinger device provisioning code:                      *)
(*   - MuxPi (devices/muxpi/muxpi.py): the provisioning sequence that      *)
(*     flashes an image through a control host, detects the image type,    *)
(*     injects credentials, reboots the device and verifies the boot;      *)
(*   - ZapperConnector (devices/zapper/__init__.py): the connector that    *)
(*     validates its input and delegates provisioning over RPyC.           *)
(* One behaviour is one run of one connector.  Every remote command is one *)
(* step whose outcome (exit 0, non-zero exit, timeout) is chosen by the    *)
(* environment.                                                            *)
(***************************************************************************)
EXTENDS Integers, Sequences, FiniteSets, TLC

(* ---- bounds of the model ---- *)
MaxParts == 2
MaxHooks == 2
MaxReboot == 2
CallCap == 3

(* ---- program constants ---- *)
BootBudget == 600
BootSleep == 10
BootAttemptTimeout == 60
ZAPPER_SERVICE_PORT == 60000

(* Durations (seconds) an attempt of the boot check may take when it ends   *)
(* before its timeout.                                                      *)
AttemptDurations == {0, BootAttemptTimeout}

(* Outcomes of subprocess.check_output / check_call: exit status 0, a       *)
(* non-zero exit status (CalledProcessError), timeout (TimeoutExpired).     *)
CmdOutcomes == {"ok", "fail", "timeout"}

(* MuxPi.IMAGE_PATH_IDS, in dictionary (insertion) order.                   *)
IMAGE_PATH_IDS ==
    << <<"etc", "ubuntu">>, <<"system-data", "core">>, <<"snaps", "core20">> >>

Markers == {IMAGE_PATH_IDS[i][1] : i \in 1..Len(IMAGE_PATH_IDS)}

(* The value of config['test_device'] (a block device path).                *)
TestDevicePath == "/dev/sda"

(* Name of the i-th child partition in the lsblk listing.                   *)
PartName(i) == "sda" \o ToString(i)

VARIABLES
    connector,      \* which connector this run drives: "muxpi" or "zapper"
    config,         \* MuxPi.config: which keys are present, script lengths
    job_data,       \* MuxPi.job_data: "ok", "no_provision_data", "no_url"
    pc,             \* position of the run
    result,         \* "" while running, "success" or the raised exception
    file_server,    \* transfer server process: none/starting/listening/dead/terminated
    serve_q,        \* serve_q holds the port reported by the worker
    mounted,        \* a partition of test_device is mounted on the control host
    mounts,         \* number of mounts in place on /mnt of the control host
    remote_calls,   \* number of _run_control invocations (saturating at CallCap)
    last,           \* the last operation issued
    last_ok,        \* whether the last operation succeeded
    all_ok,         \* whether every operation so far succeeded
    dev_list,       \* get_image_type: the candidate names
    idx,            \* get_image_type: position of the loop in dev_list
    dev,            \* get_image_type: the local variable dev
    pending,        \* how the body of the current remote_mount scope ended
    retval,         \* get_image_type: value of the return statement in progress
    image,          \* provision: <<image_type, image_dev>>
    scope,          \* the current remote_mount scope: mount result, body, unmounts
    step,           \* index in create_user commands / hooks / reboot script
    now,            \* check_test_image_booted: time.time() - started
    attempts,       \* check_test_image_booted: loop iterations so far
    zap             \* ZapperConnector: entry point, validation, connections, calls

vars == << connector, config, job_data, pc, result, file_server, serve_q,
           mounted, mounts, remote_calls, last, last_ok, all_ok, dev_list,
           idx, dev, pending, retval, image, scope, step, now, attempts, zap >>

envVars == << connector, config, job_data >>
detectVars == << dev_list, idx, dev, retval >>
bootVars == << now, attempts >>

NoScope == [mount_ok |-> FALSE, body |-> FALSE, umounts |-> 0]
NoImage == << "", "" >>
NoRet == << >>

Configs ==
    [test_device : BOOLEAN, device_ip : BOOLEAN,
     post_provision_script : 0..MaxHooks, reboot_script : 0..MaxReboot]

DefaultConfig ==
    [test_device |-> TRUE, device_ip |-> TRUE,
     post_provision_script |-> 0, reboot_script |-> 0]

JobDatas == {"ok", "no_provision_data", "no_url"}

(* args_config is the kind of value args.config holds: the path of the      *)
(* config file (a string), or anything else, such as a loaded mapping.      *)
ZapInit(entry, kind) ==
    [entry |-> entry, args_config |-> kind, valid |-> "", conns |-> 0,
     calls |-> 0, host |-> "", port |-> 0]

(* State after MuxPi.__init__ (config and job data loaded), or after the    *)
(* construction of a ZapperConnector whose provision or _run is invoked.    *)
Init ==
    /\ connector \in {"muxpi", "zapper"}
    /\ IF connector = "muxpi"
       THEN /\ config \in Configs
            /\ job_data \in JobDatas
            /\ mounted \in BOOLEAN
            /\ pc = "acquire"
            /\ zap = ZapInit("", "")
       ELSE /\ config = DefaultConfig
            /\ job_data = "ok"
            /\ mounted = FALSE
            /\ zap \in {ZapInit("provision", "path"), ZapInit("provision", "mapping"),
                        ZapInit("_run", "")}
            /\ pc = IF zap.entry = "provision" THEN "z_open" ELSE "z_connect"
    /\ result = ""
    /\ file_server = "none"
    /\ serve_q = FALSE
    /\ mounts = 0
    /\ remote_calls = 0
    /\ last = ""
    /\ last_ok = TRUE
    /\ all_ok = TRUE
    /\ dev_list = << >>
    /\ idx = 0
    /\ dev = ""
    /\ pending = ""
    /\ retval = NoRet
    /\ image = NoImage
    /\ scope = NoScope
    /\ step = 0
    /\ now = 0
    /\ attempts = 0

(* ---- helpers ---- *)

(* _run_control: a non-zero exit is raised as ProvisioningError; a timeout   *)
(* (subprocess.TimeoutExpired) is not caught and propagates as it is.        *)
RunControlError(o) ==
    IF o = "fail" THEN "ProvisioningError" ELSE "TimeoutExpired"

Bump(n) == IF n < CallCap THEN n + 1 ELSE n

(* The bookkeeping of one operation op that ended with outcome o.            *)
Issued(op, o) ==
    /\ last' = op
    /\ last_ok' = (o = "ok")
    /\ all_ok' = (all_ok /\ o = "ok")

(* One invocation of _run_control for operation op with outcome o.           *)
RunControl(op, o) ==
    /\ remote_calls' = Bump(remote_calls)
    /\ Issued(op, o)

(* The run ends by raising exception kind e (or with "success").             *)
Finish(e) ==
    /\ pc' = "done"
    /\ result' = e

srvVars == << file_server, serve_q >>
hostVars == << mounted, mounts >>
histVars == << remote_calls, last, last_ok, all_ok >>
scopeVars == << pending, scope >>

(* ---- MuxPi.provision ---- *)

(* AcquireImage with the url looked up leniently: a missing key is not      *)
(* noticed and the run goes on to the download.                              *)
AcquireImage_UrlNotChecked ==
    /\ connector = "muxpi" /\ pc = "acquire"
    /\ \E o \in {"ok", "fail"} :
         /\ Issued("download", o)
         /\ IF o = "ok"
            THEN pc' = "switch_local" /\ result' = result
            ELSE Finish("DownloadError")
    /\ UNCHANGED << envVars, srvVars, hostVars, remote_calls, detectVars,
                    scopeVars, image, step, bootVars, zap >>

(* provision, lines 74-80: look up job_data['provision_data']['url'] and     *)
(* download the image; a KeyError becomes ProvisioningError.                 *)
AcquireImage ==
    /\ connector = "muxpi" /\ pc = "acquire"
    /\ \/ /\ job_data # "ok"
          /\ Finish("ProvisioningError")
          /\ UNCHANGED << last, last_ok, all_ok >>
       \/ /\ job_data = "ok"
          /\ \E o \in {"ok", "fail"} :
               /\ Issued("download", o)
               /\ IF o = "ok"
                  THEN pc' = "switch_local" /\ result' = result
                  ELSE Finish("DownloadError")
    /\ UNCHANGED << envVars, srvVars, hostVars, remote_calls, detectVars,
                    scopeVars, image, step, bootVars, zap >>

(* provision, lines 81-83: the control_switch_local_cmd command.             *)
SwitchLocal ==
    /\ connector = "muxpi" /\ pc = "switch_local"
    /\ \E o \in CmdOutcomes :
         /\ RunControl("switch_local", o)
         /\ IF o = "ok"
            THEN pc' = "start_server" /\ result' = result
            ELSE Finish(RunControlError(o))
    /\ UNCHANGED << envVars, srvVars, hostVars, detectVars, scopeVars, image,
                    step, bootVars, zap >>

(* provision, lines 84-92: sleep, compress the image and start the process   *)
(* that runs serve_file.                                                     *)
StartServer ==
    /\ connector = "muxpi" /\ pc = "start_server"
    /\ file_server' = "starting"
    /\ Issued("start_server", "ok")
    /\ pc' = "wait_port"
    /\ UNCHANGED << envVars, result, serve_q, hostVars, remote_calls,
                    detectVars, scopeVars, image, step, bootVars, zap >>

(* The worker process binds a port and reports it through serve_q.           *)
ServeFileListen ==
    /\ connector = "muxpi" /\ file_server = "starting"
    /\ file_server' = "listening"
    /\ serve_q' = TRUE
    /\ UNCHANGED << envVars, pc, result, hostVars, histVars, detectVars,
                    scopeVars, image, step, bootVars, zap >>

(* The worker process fails and exits before it reports a port.              *)
ServeFileExit ==
    /\ connector = "muxpi" /\ file_server = "starting"
    /\ file_server' = "dead"
    /\ UNCHANGED << envVars, pc, result, serve_q, hostVars, histVars,
                    detectVars, scopeVars, image, step, bootVars, zap >>

(* provision that does not wait for the port of the worker at line 93.       *)
WaitPort_NoWait ==
    /\ connector = "muxpi" /\ pc = "wait_port"
    /\ serve_q' = FALSE
    /\ Issued("recv_port", "ok")
    /\ pc' = "stale_umount"
    /\ UNCHANGED << envVars, result, file_server, hostVars, remote_calls,
                    detectVars, scopeVars, image, step, bootVars, zap >>

(* provision, line 93: server_port = serve_q.get() blocks until a port is    *)
(* in the queue.                                                             *)
WaitPort ==
    /\ connector = "muxpi" /\ pc = "wait_port"
    /\ serve_q
    /\ serve_q' = FALSE
    /\ Issued("recv_port", "ok")
    /\ pc' = "stale_umount"
    /\ UNCHANGED << envVars, result, file_server, hostVars, remote_calls,
                    detectVars, scopeVars, image, step, bootVars, zap >>

(* What 'sudo umount <test_device>*' leaves of the stale mount: exit 0 means *)
(* nothing is mounted any more; a non-zero exit or a timeout may have        *)
(* unmounted the partition or left it mounted (busy, ssh failure).           *)
UmountEffect(o, m) == IF o = "ok" THEN {FALSE} ELSE {m, FALSE}

(* UnmountWritablePartition without its except KeyError clause: the missing  *)
(* key is swallowed like any other failure.                                  *)
UnmountWritablePartition_KeyErrorSwallowed ==
    /\ connector = "muxpi" /\ pc = "stale_umount"
    /\ IF ~config.test_device
       THEN /\ pc' = "flash" /\ result' = result
            /\ UNCHANGED << mounted, histVars >>
       ELSE \E o \in CmdOutcomes :
               /\ RunControl("stale_umount", o)
               /\ mounted' \in UmountEffect(o, mounted)
               /\ pc' = "flash" /\ result' = result
    /\ UNCHANGED << envVars, srvVars, mounts, detectVars, scopeVars, image,
                    step, bootVars, zap >>

(* unmount_writable_partition, lines 200-209: a missing 'test_device' raises *)
(* RecoveryError before any command runs; any other failure is ignored.      *)
UnmountWritablePartition ==
    /\ connector = "muxpi" /\ pc = "stale_umount"
    /\ IF ~config.test_device
       THEN /\ Finish("RecoveryError")
            /\ UNCHANGED << mounted, histVars >>
       ELSE \E o \in CmdOutcomes :
               /\ RunControl("stale_umount", o)
               /\ mounted' \in UmountEffect(o, mounted)
               /\ pc' = "flash" /\ result' = result
    /\ UNCHANGED << envVars, srvVars, mounts, detectVars, scopeVars, image,
                    step, bootVars, zap >>

(* FlashImage followed directly by the partition rescan, without the sync.   *)
FlashImage_SkipSync ==
    /\ connector = "muxpi" /\ pc = "flash"
    /\ IF ~config.test_device
       THEN Finish("KeyError") /\ UNCHANGED histVars
       ELSE \E o \in CmdOutcomes :
              /\ RunControl("flash", o)
              /\ IF o = "ok"
                 THEN pc' = "hdparm" /\ result' = result
                 ELSE Finish("ProvisioningError")
    /\ UNCHANGED << envVars, srvVars, hostVars, detectVars, scopeVars, image,
                    step, bootVars, zap >>

(* flash_test_image, lines 125-132: the nc | xzcat | dd pipeline; any        *)
(* failure is raised as ProvisioningError.  The command is built from        *)
(* config['test_device'] outside the try statement.                          *)
FlashImage ==
    /\ connector = "muxpi" /\ pc = "flash"
    /\ IF ~config.test_device
       THEN Finish("KeyError") /\ UNCHANGED histVars
       ELSE \E o \in CmdOutcomes :
              /\ RunControl("flash", o)
              /\ IF o = "ok"
                 THEN pc' = "sync" /\ result' = result
                 ELSE Finish("ProvisioningError")
    /\ UNCHANGED << envVars, srvVars, hostVars, detectVars, scopeVars, image,
                    step, bootVars, zap >>

(* flash_test_image, lines 133-138: sync; a failure is logged, followed by   *)
(* a sleep, and the run goes on.                                             *)
Sync ==
    /\ connector = "muxpi" /\ pc = "sync"
    /\ \E o \in CmdOutcomes : RunControl("sync", o)
    /\ pc' = "hdparm"
    /\ UNCHANGED << envVars, result, srvVars, hostVars, detectVars, scopeVars,
                    image, step, bootVars, zap >>

(* flash_test_image, lines 139-145: hdparm -z; any failure is raised as      *)
(* ProvisioningError.                                                        *)
Hdparm ==
    /\ connector = "muxpi" /\ pc = "hdparm"
    /\ \E o \in CmdOutcomes :
         /\ RunControl("hdparm", o)
         /\ IF o = "ok"
            THEN pc' = "terminate" /\ result' = result
            ELSE Finish("ProvisioningError")
    /\ UNCHANGED << envVars, srvVars, hostVars, detectVars, scopeVars, image,
                    step, bootVars, zap >>

(* provision, line 96: file_server.terminate().                              *)
TerminateServer ==
    /\ connector = "muxpi" /\ pc = "terminate"
    /\ file_server' = "terminated"
    /\ Issued("terminate", "ok")
    /\ pc' = "lsblk"
    /\ UNCHANGED << envVars, result, serve_q, hostVars, remote_calls,
                    detectVars, scopeVars, image, step, bootVars, zap >>

(* ---- MuxPi.get_image_type ---- *)

(* What 'lsblk -J' can report for the first block device: no "children"      *)
(* entry at all, or up to MaxParts children, each with or without a name.    *)
Listings ==
    { [has_children |-> FALSE, children |-> << >>] } \cup
    UNION { { [has_children |-> TRUE,
               children |-> [i \in 1..n |-> IF b[i] THEN PartName(i) ELSE ""]] :
                b \in [1..n -> BOOLEAN] } : n \in 0..MaxParts }

(* get_image_type, lines 184-186: the names of the children that have one.   *)
DevList(children) == SelectSeq(children, LAMBDA x : x # "")

RECURSIVE ClassifyFrom(_, _)
ClassifyFrom(dirs, i) ==
    IF i > Len(IMAGE_PATH_IDS) THEN ""
    ELSE IF IMAGE_PATH_IDS[i][1] \in dirs THEN IMAGE_PATH_IDS[i][2]
    ELSE ClassifyFrom(dirs, i + 1)

(* get_image_type, lines 191-193: the image type of the first marker path,   *)
(* in the order of IMAGE_PATH_IDS, that the listing contains; "" if none.    *)
Classify(dirs) == ClassifyFrom(dirs, 1)

(* get_image_type returns (t, d) to provision, line 97; its locals are gone. *)
ReturnImage(t, d) ==
    /\ image' = << t, d >>
    /\ pc' = "final_mount"
    /\ dev_list' = << >>
    /\ idx' = 0
    /\ dev' = ""

(* get_image_type, lines 187 and 198: the for loop takes the candidate after *)
(* position i of list; when there is none, 'unknown' is returned with the    *)
(* current value d of the variable dev.                                      *)
NextCandidate(list, i, d) ==
    IF i < Len(list)
    THEN /\ idx' = i + 1
         /\ dev' = list[i + 1]
         /\ dev_list' = list
         /\ pc' = "detect_mount"
         /\ image' = image
    ELSE ReturnImage("unknown", d)

(* get_image_type, lines 181-187: list the partitions of test_device.        *)
Lsblk ==
    /\ connector = "muxpi" /\ pc = "lsblk"
    /\ \E o \in CmdOutcomes :
         /\ RunControl("lsblk", o)
         /\ IF o = "ok"
            THEN \E l \in Listings :
                   IF ~l.has_children
                   THEN /\ Finish("KeyError")
                        /\ UNCHANGED << dev_list, idx, dev, image >>
                   ELSE /\ NextCandidate(DevList(l.children), 0, TestDevicePath)
                        /\ result' = result
            ELSE /\ Finish(RunControlError(o))
                 /\ UNCHANGED << dev_list, idx, dev, image >>
    /\ UNCHANGED << envVars, srvVars, hostVars, scopeVars, retval, step,
                    bootVars, zap >>

(* Number of mounts on /mnt after a mount command with outcome o.            *)
MountEffect(o, n) == IF o = "ok" THEN n + 1 ELSE n

(* Numbers of mounts that can be on /mnt after 'sudo umount /mnt' with       *)
(* outcome o: exit 0 removed one; otherwise it may or may not have.          *)
MntUmountEffect(o, n) ==
    LET less == IF n > 0 THEN n - 1 ELSE 0
    IN  IF o = "ok" THEN {less} ELSE {n, less}

(* remote_mount, lines 149-152: the scope is entered, and its body runs,     *)
(* only when the mount command succeeded.                                    *)
EnterScope(o) == [mount_ok |-> (o = "ok"), body |-> (o = "ok"), umounts |-> 0]

(* remote_mount, lines 153-154: the finally clause issues one unmount.       *)
LeaveScope(s) == [s EXCEPT !.umounts = @ + 1]

(* get_image_type, lines 188-189 and 194-196: mount the candidate; a failed  *)
(* mount is swallowed and the loop continues.                                *)
DetectMount ==
    /\ connector = "muxpi" /\ pc = "detect_mount"
    /\ \E o \in CmdOutcomes :
         /\ RunControl("mount", o)
         /\ scope' = EnterScope(o)
         /\ mounts' = MountEffect(o, mounts)
         /\ IF scope'.body
            THEN /\ pc' = "detect_ls"
                 /\ UNCHANGED << dev_list, idx, dev, image >>
            ELSE NextCandidate(dev_list, idx, dev)
    /\ UNCHANGED << envVars, result, srvVars, mounted, pending, retval, step,
                    bootVars, zap >>

(* DetectLs in a remote_mount without try/finally: when the body raises, the *)
(* unmount is skipped and the exception goes straight to line 194.           *)
DetectLs_NoFinally ==
    /\ connector = "muxpi" /\ pc = "detect_ls"
    /\ \E o \in CmdOutcomes :
         /\ RunControl("ls", o)
         /\ IF o = "ok"
            THEN /\ \E dirs \in SUBSET Markers :
                      IF Classify(dirs) # ""
                      THEN /\ pending' = "return"
                           /\ retval' = << Classify(dirs), dev >>
                      ELSE /\ pending' = "normal"
                           /\ retval' = NoRet
                 /\ pc' = "detect_umount"
                 /\ UNCHANGED << dev_list, idx, dev, image >>
            ELSE /\ pending' = ""
                 /\ retval' = NoRet
                 /\ NextCandidate(dev_list, idx, dev)
    /\ UNCHANGED << envVars, result, srvVars, hostVars, scope, step,
                    bootVars, zap >>

(* get_image_type, lines 190-193: list /mnt and look for a marker path; the  *)
(* return statement, or an exception, leaves the scope through its finally.  *)
DetectLs ==
    /\ connector = "muxpi" /\ pc = "detect_ls"
    /\ \E o \in CmdOutcomes :
         /\ RunControl("ls", o)
         /\ IF o = "ok"
            THEN \E dirs \in SUBSET Markers :
                   IF Classify(dirs) # ""
                   THEN /\ pending' = "return"
                        /\ retval' = << Classify(dirs), dev >>
                   ELSE /\ pending' = "normal"
                        /\ retval' = NoRet
            ELSE /\ pending' = "raise"
                 /\ retval' = NoRet
    /\ pc' = "detect_umount"
    /\ UNCHANGED << envVars, result, srvVars, hostVars, dev_list, idx, dev,
                    image, scope, step, bootVars, zap >>

(* How the with statement of get_image_type ends, given how its body ended   *)
(* (p) and the outcome o of the unmount in the finally clause: "return" when *)
(* the pending return goes through, "continue" when the loop goes on (the    *)
(* body completed without a match, or an exception was caught at line 194).  *)
DetectExit(p, o) ==
    IF o = "ok" /\ p = "return" THEN "return" ELSE "continue"

(* remote_mount, line 154, then get_image_type, lines 193-196.               *)
DetectUmount ==
    /\ connector = "muxpi" /\ pc = "detect_umount"
    /\ \E o \in CmdOutcomes :
         /\ RunControl("umount", o)
         /\ scope' = LeaveScope(scope)
         /\ mounts' \in MntUmountEffect(o, mounts)
         /\ IF DetectExit(pending, o) = "return"
            THEN ReturnImage(retval[1], retval[2])
            ELSE NextCandidate(dev_list, idx, dev)
    /\ pending' = ""
    /\ retval' = NoRet
    /\ UNCHANGED << envVars, result, srvVars, mounted, step, bootVars, zap >>

(* ---- credential injection, hooks, reboot, boot check ---- *)

(* create_user that removes the default cloud-init fragment for every image *)
(* type written with meta-data and user-data.                                *)
CreateUserCmds_RmAlways(t) ==
    IF t = "core20"
    THEN << "mkdir", "write_99_nocloud" >>
    ELSE << "mkdir", "write_meta_data", "write_user_data", "rm_fake_cloud" >>

(* create_user, lines 237-263: the commands issued for image type t.         *)
CreateUserCmds(t) ==
    IF t = "core20"
    THEN << "mkdir", "write_99_nocloud" >>
    ELSE << "mkdir", "write_meta_data", "write_user_data" >> \o
         (IF t = "ubuntu" THEN << "rm_fake_cloud" >> ELSE << >>)

CreateUserOps ==
    {"mkdir", "write_99_nocloud", "write_meta_data", "write_user_data",
     "rm_fake_cloud"}

(* provision, line 98, remote_mount lines 149-150: mount the classified      *)
(* partition; a failure of the mount ends the run.                           *)
FinalMount ==
    /\ connector = "muxpi" /\ pc = "final_mount"
    /\ \E o \in CmdOutcomes :
         /\ RunControl("final_mount", o)
         /\ scope' = EnterScope(o)
         /\ mounts' = MountEffect(o, mounts)
         /\ IF scope'.body
            THEN pc' = "create_user" /\ step' = 1 /\ result' = result
            ELSE Finish(RunControlError(o)) /\ step' = step
    /\ UNCHANGED << envVars, srvVars, mounted, detectVars, pending, image,
                    bootVars, zap >>

(* create_user, lines 240-265: one command of the injection; any failure is  *)
(* raised as ProvisioningError and leaves the scope through its finally.     *)
CreateUser ==
    /\ connector = "muxpi" /\ pc = "create_user"
    /\ LET cmds == CreateUserCmds(image[1])
       IN  \E o \in CmdOutcomes :
             /\ RunControl(cmds[step], o)
             /\ IF o # "ok"
                THEN pending' = "ProvisioningError" /\ pc' = "final_umount"
                                                    /\ step' = 0
                ELSE IF step < Len(cmds)
                THEN pending' = pending /\ pc' = pc /\ step' = step + 1
                ELSE pending' = "normal" /\ pc' = "final_umount" /\ step' = 0
    /\ UNCHANGED << envVars, result, srvVars, hostVars, detectVars, image,
                    scope, bootVars, zap >>

(* The step after a loop over a script of n commands: its first command, at  *)
(* position p, or at position q when the script is empty.                    *)
LoopEntry(n, p, q) == IF n > 0 THEN p ELSE q

(* remote_mount, line 154, then provision, lines 100-101: an exception of    *)
(* the unmount replaces the one of the body, if any.                         *)
FinalUmount ==
    /\ connector = "muxpi" /\ pc = "final_umount"
    /\ \E o \in CmdOutcomes :
         /\ RunControl("final_umount", o)
         /\ scope' = LeaveScope(scope)
         /\ mounts' \in MntUmountEffect(o, mounts)
         /\ IF o # "ok"
            THEN Finish(RunControlError(o)) /\ step' = step
            ELSE IF pending # "normal"
            THEN Finish(pending) /\ step' = step
            ELSE /\ pc' = LoopEntry(config.post_provision_script,
                                    "hooks", "switch_device")
                 /\ step' = 1
                 /\ result' = result
    /\ pending' = ""
    /\ image' = NoImage
    /\ UNCHANGED << envVars, srvVars, mounted, detectVars, bootVars, zap >>

(* run_post_provision_script without its try statement: a failing hook      *)
(* ends the run.                                                             *)
RunPostProvisionScript_FailureAborts ==
    /\ connector = "muxpi" /\ pc = "hooks"
    /\ \E o \in CmdOutcomes :
         /\ RunControl("hook", o)
         /\ IF o # "ok"
            THEN Finish(RunControlError(o)) /\ step' = step
            ELSE IF step < config.post_provision_script
            THEN pc' = pc /\ step' = step + 1 /\ result' = result
            ELSE pc' = "switch_device" /\ step' = 1 /\ result' = result
    /\ UNCHANGED << envVars, srvVars, hostVars, detectVars, scopeVars,
                    image, bootVars, zap >>

(* run_post_provision_script, lines 290-298: a failing hook is logged.       *)
RunPostProvisionScript ==
    /\ connector = "muxpi" /\ pc = "hooks"
    /\ \E o \in CmdOutcomes : RunControl("hook", o)
    /\ IF step < config.post_provision_script
       THEN pc' = pc /\ step' = step + 1
       ELSE pc' = "switch_device" /\ step' = 1
    /\ UNCHANGED << envVars, result, srvVars, hostVars, detectVars, scopeVars,
                    image, bootVars, zap >>

(* provision, lines 103-105: the control_switch_device_cmd command.          *)
SwitchDevice ==
    /\ connector = "muxpi" /\ pc = "switch_device"
    /\ \E o \in CmdOutcomes :
         /\ RunControl("switch_device", o)
         /\ IF o = "ok"
            THEN /\ pc' = LoopEntry(config.reboot_script, "hardreset", "boot")
                 /\ result' = result
            ELSE Finish(RunControlError(o))
    /\ step' = 1
    /\ UNCHANGED << envVars, srvVars, hostVars, detectVars, scopeVars, image,
                    bootVars, zap >>

(* HardReset that treats a failing reboot command like a failing hook: it   *)
(* is ignored and the script goes on.                                        *)
HardReset_FailureIgnored ==
    /\ connector = "muxpi" /\ pc = "hardreset"
    /\ \E o \in CmdOutcomes : Issued("reboot", o)
    /\ IF step < config.reboot_script
       THEN pc' = pc /\ step' = step + 1
       ELSE pc' = "boot" /\ step' = 1
    /\ UNCHANGED << envVars, result, srvVars, hostVars, remote_calls,
                    detectVars, scopeVars, image, bootVars, zap >>

(* hardreset, lines 167-172: one command of reboot_script, run locally; any  *)
(* failure is raised as RecoveryError.  check_test_image_booted then takes   *)
(* its start time (line 269).                                                *)
HardReset ==
    /\ connector = "muxpi" /\ pc = "hardreset"
    /\ \E o \in CmdOutcomes :
         /\ Issued("reboot", o)
         /\ IF o # "ok"
            THEN Finish("RecoveryError") /\ step' = step
            ELSE IF step < config.reboot_script
            THEN pc' = pc /\ step' = step + 1 /\ result' = result
            ELSE pc' = "boot" /\ step' = 1 /\ result' = result
    /\ UNCHANGED << envVars, srvVars, hostVars, remote_calls, detectVars,
                    scopeVars, image, bootVars, zap >>

(* BootStep without the return of line 284.                                  *)
BootStep_NeverReturns(o) == "retry"

(* check_test_image_booted, lines 276-286: what one iteration of the loop    *)
(* does with outcome o of ssh-copy-id: "return" (line 284) or "retry".       *)
BootStep(o) == IF o = "ok" THEN "return" ELSE "retry"

(* BootAttempt under the loop condition 'elapsed <= 600' in place of        *)
(* 'elapsed < 600'.                                                          *)
BootAttempt_InclusiveBudget ==
    /\ connector = "muxpi" /\ pc = "boot"
    /\ now <= BootBudget
    /\ attempts' = attempts + 1
    /\ IF ~config.device_ip
       THEN /\ Issued("boot_no_ip", "fail")
            /\ now' = now + BootSleep
            /\ pc' = pc /\ result' = result
       ELSE \E o \in CmdOutcomes :
              \E d \in (IF o = "timeout" THEN {BootAttemptTimeout}
                        ELSE AttemptDurations) :
                /\ Issued("boot_attempt", o)
                /\ now' = now + BootSleep + d
                /\ IF BootStep(o) = "return"
                   THEN Finish("success")
                   ELSE pc' = pc /\ result' = result
    /\ UNCHANGED << envVars, srvVars, hostVars, remote_calls, detectVars,
                    scopeVars, image, step, zap >>

(* check_test_image_booted, lines 275-286: one iteration: sleep, then one    *)
(* credential exchange of duration d; without 'device_ip' in the config the  *)
(* command is not even built (KeyError, swallowed).                          *)
BootAttempt ==
    /\ connector = "muxpi" /\ pc = "boot"
    /\ now < BootBudget
    /\ attempts' = attempts + 1
    /\ IF ~config.device_ip
       THEN /\ Issued("boot_no_ip", "fail")
            /\ now' = now + BootSleep
            /\ pc' = pc /\ result' = result
       ELSE \E o \in CmdOutcomes :
              \E d \in (IF o = "timeout" THEN {BootAttemptTimeout}
                        ELSE AttemptDurations) :
                /\ Issued("boot_attempt", o)
                /\ now' = now + BootSleep + d
                /\ IF BootStep(o) = "return"
                   THEN Finish("success")
                   ELSE pc' = pc /\ result' = result
    /\ UNCHANGED << envVars, srvVars, hostVars, remote_calls, detectVars,
                    scopeVars, image, step, zap >>

(* check_test_image_booted, lines 275 and 288: the budget is used up.        *)
BootExpired ==
    /\ connector = "muxpi" /\ pc = "boot"
    /\ now >= BootBudget
    /\ Finish("ProvisioningError")
    /\ UNCHANGED << envVars, srvVars, hostVars, histVars, detectVars,
                    scopeVars, image, step, bootVars, zap >>

(* ---- ZapperConnector ---- *)

muxVars == << config, job_data, file_server, serve_q, mounted, mounts,
              remote_calls, dev_list, idx, dev, pending, retval, image, scope,
              step, now, attempts >>

(* open(x) needs a path: any other kind of value raises TypeError.           *)
OpenFile(kind) == IF kind = "path" THEN "ok" ELSE "TypeError"

(* x["controller_host"]: a string cannot be indexed by a string (TypeError); *)
(* a mapping yields the value.                                               *)
Subscript(kind) == IF kind = "mapping" THEN "ok" ELSE "TypeError"

(* provision, lines 54-56: load the config file named by args.config.        *)
ZapperOpenConfig ==
    /\ connector = "zapper" /\ pc = "z_open"
    /\ Issued("open_config", OpenFile(zap.args_config))
    /\ IF OpenFile(zap.args_config) = "ok"
       THEN pc' = "z_validate" /\ result' = result
       ELSE Finish(OpenFile(zap.args_config))
    /\ UNCHANGED << connector, muxVars, zap >>

(* provision, lines 58-60: _validate_configuration returns the arguments or  *)
(* raises.                                                                   *)
ZapperValidate ==
    /\ connector = "zapper" /\ pc = "z_validate"
    /\ \E v \in {"ok", "invalid"} :
         /\ zap' = [zap EXCEPT !.valid = v]
         /\ Issued("validate", IF v = "ok" THEN "ok" ELSE "fail")
         /\ IF v = "ok"
            THEN pc' = "z_host" /\ result' = result
            ELSE Finish("ValidationError")
    /\ UNCHANGED << connector, muxVars >>

(* provision, line 65: the argument args.config["controller_host"] of _run   *)
(* is evaluated on args.config, the value given to open() at line 54, and    *)
(* not on the loaded config.                                                 *)
ZapperHost ==
    /\ connector = "zapper" /\ pc = "z_host"
    /\ Issued("controller_host", Subscript(zap.args_config))
    /\ IF Subscript(zap.args_config) = "ok"
       THEN pc' = "z_connect" /\ result' = result
       ELSE Finish(Subscript(zap.args_config))
    /\ UNCHANGED << connector, muxVars, zap >>

(* _run, lines 89-96: rpyc.connect to zapper_ip at ZAPPER_SERVICE_PORT.      *)
ZapperConnect ==
    /\ connector = "zapper" /\ pc = "z_connect"
    /\ \E o \in {"ok", "fail"} :
         /\ zap' = [zap EXCEPT !.conns = @ + 1,
                               !.host = "controller_host",
                               !.port = ZAPPER_SERVICE_PORT]
         /\ Issued("connect", o)
         /\ IF o = "ok"
            THEN pc' = "z_call" /\ result' = result
            ELSE Finish("ConnectionError")
    /\ UNCHANGED << connector, muxVars >>

(* _run, lines 98-103: one synchronous call of the remote provision method.  *)
ZapperCall ==
    /\ connector = "zapper" /\ pc = "z_call"
    /\ \E o \in CmdOutcomes :
         /\ zap' = [zap EXCEPT !.calls = @ + 1]
         /\ Issued("rpc_provision", o)
         /\ Finish(IF o = "ok" THEN "success"
                   ELSE IF o = "fail" THEN "RemoteError" ELSE "TimeoutError")
    /\ UNCHANGED << connector, muxVars >>

(* The exit status the decorator catch(RecoveryError, 46) around provision   *)
(* gives a run that ended with e: RecoveryError is caught and turned into    *)
(* RecoveryExitCode; any other exception leaves the process uncaught.        *)
RecoveryExitCode == 46

ExitCode(e) ==
    IF e = "RecoveryError" THEN RecoveryExitCode
    ELSE IF e = "success" THEN 0 ELSE 1

Next ==
    \/ AcquireImage
    \/ SwitchLocal
    \/ StartServer
    \/ ServeFileListen
    \/ ServeFileExit
    \/ WaitPort
    \/ UnmountWritablePartition
    \/ FlashImage
    \/ Sync
    \/ Hdparm
    \/ TerminateServer
    \/ Lsblk
    \/ DetectMount
    \/ DetectLs
    \/ DetectUmount
    \/ FinalMount
    \/ CreateUser
    \/ FinalUmount
    \/ RunPostProvisionScript
    \/ SwitchDevice
    \/ HardReset
    \/ BootAttempt
    \/ BootExpired
    \/ ZapperOpenConfig
    \/ ZapperValidate
    \/ ZapperHost
    \/ ZapperConnect
    \/ ZapperCall

Spec == Init /\ [][Next]_vars

(* ======================= properties ======================= *)

Mux == connector = "muxpi"
Done == pc = "done"

(* Operations that come after the stale unmount in flash_test_image and in   *)
(* the rest of provision.                                                    *)
FlashAndLaterOps ==
    {"flash", "sync", "hdparm", "terminate", "lsblk", "mount", "ls", "umount",
     "final_mount", "final_umount", "hook", "switch_device", "reboot",
     "boot_attempt", "boot_no_ip"} \cup CreateUserOps

(* C1: the flash pipeline is never issued while a partition of the target    *)
(* device is mounted on the control host, whatever the outcome of the stale  *)
(* unmount before it.                                                        *)
C1_NoFlashWhileMounted == (Mux /\ last = "flash") => ~mounted

(* C2: in every terminal state of provision that follows the flash command   *)
(* or a later operation (the transfer server has been started by then), the  *)
(* server process has been terminated.                                       *)
C2_ServerTerminatedAtExit ==
    (Mux /\ Done /\ last \in FlashAndLaterOps) => file_server = "terminated"

(* C3: with job data lacking provision_data.url, provision ends with         *)
(* ProvisioningError and no remote command is ever issued and no transfer    *)
(* server is ever started.                                                   *)
C3_NoRemoteWithoutUrl ==
    (Mux /\ job_data # "ok") =>
        /\ remote_calls = 0
        /\ file_server = "none"
        /\ last = ""
        /\ pc \in {"acquire", "done"}
        /\ Done => result = "ProvisioningError"

C3_Witness ==
    Mux /\ job_data = "no_url" /\ Done /\ result = "ProvisioningError"
        /\ remote_calls = 0

(* C4: with a config lacking test_device, the unmount-before-flash step ends *)
(* the run with RecoveryError, never ProvisioningError, and the flash        *)
(* pipeline (like every later operation) is never issued.                    *)
C4_MissingDeviceIsRecoveryError ==
    (Mux /\ ~config.test_device) =>
        /\ last \notin ({"stale_umount"} \cup FlashAndLaterOps)
        /\ (Done /\ last = "recv_port") => result = "RecoveryError"
        /\ pc \in {"acquire", "switch_local", "start_server", "wait_port",
                   "stale_umount", "done"}

C4_Witness ==
    Mux /\ ~config.test_device /\ Done /\ last = "recv_port"
        /\ result = "RecoveryError"

(* C5: once the listing of a mounted candidate contains a marker path,       *)
(* get_image_type returns that candidate's label and name and mounts no      *)
(* later candidate, whatever the outcome of the unmount.                     *)
C5_MatchAlwaysReturned ==
    [][(Mux /\ pc = "detect_umount" /\ pending = "return") =>
          (pc' = "final_mount" /\ image' = retval)]_vars

(* C6: when no candidate matches, get_image_type does not raise and returns  *)
(* 'unknown' with the name of a candidate partition (the last one), for      *)
(* every listing the lsblk command reports.                                  *)
C6_UnknownWithLastCandidate ==
    [][Mux =>
         /\ (pc = "lsblk" /\ last_ok') => pc' # "done"
         /\ (pc \in {"lsblk", "detect_mount", "detect_umount"}
               /\ pc' = "final_mount" /\ image'[1] = "unknown") =>
                (dev_list # << >> /\ image'[2] = dev_list[Len(dev_list)])]_vars

(* C7: the body of a remote_mount scope runs only when the mount command     *)
(* succeeded; once the scope is left the unmount command has been issued     *)
(* exactly once if the mount had succeeded (whether the body completed,      *)
(* returned or raised) and not at all if the mount had failed.               *)
C7_ScopedUnmount ==
    Mux =>
      /\ scope.body = scope.mount_ok
      /\ pc \in {"detect_ls", "create_user", "detect_umount", "final_umount"} =>
            (scope.mount_ok /\ scope.umounts = 0)
      /\ pc \notin {"detect_ls", "create_user", "detect_umount", "final_umount"} =>
            scope.umounts = (IF scope.mount_ok THEN 1 ELSE 0)
      /\ last \in ({"ls"} \cup CreateUserOps) => scope.mount_ok

C7_Witness ==
    Mux /\ Done /\ last = "final_umount" /\ last_ok
        /\ result = "ProvisioningError" /\ scope.mount_ok /\ scope.umounts = 1

(* C8: the first attempt of check_test_image_booted that succeeds ends the   *)
(* run with success at once; a run that got to the boot check ends with      *)
(* success or, once 600 seconds have passed without a successful attempt     *)
(* (a missing device_ip included), with ProvisioningError, never with        *)
(* RecoveryError.                                                            *)
C8_BootVerification ==
    Mux =>
      /\ (last = "boot_attempt" /\ last_ok) => (Done /\ result = "success")
      /\ result = "success" => (last = "boot_attempt" /\ last_ok)
      /\ (Done /\ attempts > 0) => result \in {"success", "ProvisioningError"}
      /\ (Done /\ attempts > 0 /\ result = "ProvisioningError") =>
            (now >= BootBudget /\ ~last_ok)
      /\ (pc = "boot" /\ now >= BootBudget) => ~last_ok

C8_Witness ==
    Mux /\ Done /\ ~config.device_ip /\ attempts > 0
        /\ result = "ProvisioningError"

(* C9: in ZapperConnector.provision a connection is attempted only after a   *)
(* successful validation; a failed validation leaves zero connection         *)
(* attempts; a successful one is followed by exactly one connection to the   *)
(* controller host and, on it, exactly one provision call.                   *)
C9_ValidateThenOneCall ==
    (connector = "zapper" /\ zap.entry = "provision") =>
      /\ zap.conns > 0 => zap.valid = "ok"
      /\ (Done /\ zap.valid # "ok") => zap.conns = 0
      /\ (Done /\ zap.valid = "ok") =>
            (zap.conns = 1 /\ zap.calls <= 1
               /\ (result # "ConnectionError" => zap.calls = 1))

(* The order of operations of a run of provision in which every command      *)
(* succeeds: the pairs (operation, next operation).                          *)
SuccessOrder ==
    { << "", "download" >>, << "download", "switch_local" >>,
      << "switch_local", "start_server" >>, << "start_server", "recv_port" >>,
      << "recv_port", "stale_umount" >>, << "stale_umount", "flash" >>,
      << "flash", "sync" >>, << "sync", "hdparm" >>,
      << "hdparm", "terminate" >>, << "terminate", "lsblk" >>,
      << "lsblk", "mount" >>, << "lsblk", "final_mount" >>,
      << "mount", "ls" >>, << "ls", "umount" >>, << "umount", "mount" >>,
      << "umount", "final_mount" >>, << "final_mount", "mkdir" >>,
      << "mkdir", "write_99_nocloud" >>, << "mkdir", "write_meta_data" >>,
      << "write_meta_data", "write_user_data" >>,
      << "write_user_data", "rm_fake_cloud" >>,
      << "write_user_data", "final_umount" >>,
      << "write_99_nocloud", "final_umount" >>,
      << "rm_fake_cloud", "final_umount" >>,
      << "final_umount", "hook" >>, << "final_umount", "switch_device" >>,
      << "hook", "hook" >>, << "hook", "switch_device" >>,
      << "switch_device", "reboot" >>, << "switch_device", "boot_attempt" >>,
      << "reboot", "reboot" >>, << "reboot", "boot_attempt" >> }

(* C10: while every command succeeds, the operations of provision follow one *)
(* another in the order download, switch-local, server start, stale unmount, *)
(* flash, sync, rescan, listing and inspection of the candidates, mount of   *)
(* the classified partition, credential writes, unmount, hooks,              *)
(* switch-device, reboot script, boot check; and such a run of a complete    *)
(* config and job ends in success after one boot attempt.                    *)
C10_SuccessOrder ==
    [][Mux =>
         /\ all_ok' =>
               \/ << last, last' >> \in SuccessOrder
               \/ last' = last /\ file_server' # file_server
               \/ last' = last /\ pc' = "done" /\ result' # "success"
         /\ (pc' = "done" /\ all_ok' /\ config.test_device /\ job_data = "ok"
               /\ result' # "KeyError") =>
               (result' = "success" /\ attempts' = 1
                  /\ last' = "boot_attempt")]_vars

C10_Witness ==
    Mux /\ Done /\ all_ok /\ result = "success" /\ attempts = 1
        /\ config.post_provision_script > 1 /\ config.reboot_script > 1

(* Commands run through _run_control whose failure leaves provision as it    *)
(* is raised by _run_control.                                                *)
PropagatingOps ==
    {"switch_local", "lsblk", "final_mount", "final_umount", "switch_device"}

(* C11: every failing run of provision ends with ProvisioningError or with   *)
(* RecoveryError, also when the switch-local, mount, unmount, listing or     *)
(* switch-device command fails by timing out.                                *)
C11_FailuresAreClassified ==
    (Mux /\ Done /\ result # "success" /\ last \in PropagatingOps) =>
        result \in {"ProvisioningError", "RecoveryError"}

(* C12: a reboot-script command that fails or times out ends the run at once *)
(* with RecoveryError: no further reboot command is run and the boot check   *)
(* is never attempted; and a run that got to the reboot script ends with     *)
(* RecoveryError only in that way.                                           *)
C12_RebootFailureIsRecoveryError ==
    Mux =>
      /\ (last = "reboot" /\ ~last_ok) =>
            (Done /\ result = "RecoveryError" /\ attempts = 0)
      /\ (Done /\ result = "RecoveryError" /\ config.test_device) =>
            (last = "reboot" /\ ~last_ok)
      /\ attempts > 0 => result # "RecoveryError"

C12_Witness ==
    Mux /\ Done /\ last = "reboot" /\ ~last_ok /\ result = "RecoveryError"
        /\ step < config.reboot_script /\ attempts = 0

(* C13: a failure of the RPC step of the ZapperConnector (the connection,    *)
(* the provision call or its timeout) ends the run with RecoveryError, which *)
(* provision reports as exit status 46.                                      *)
C13_RpcFailureIsRecoveryError ==
    (connector = "zapper" /\ Done /\ result # "success"
       /\ last \in {"controller_host", "connect", "rpc_provision"}) =>
        /\ result = "RecoveryError"
        /\ zap.entry = "provision" => ExitCode(result) = RecoveryExitCode

(* The last command of a complete credential injection for image type t.     *)
LastInjectionOp(t) ==
    IF t = "ubuntu" THEN "rm_fake_cloud"
    ELSE IF t = "core20" THEN "write_99_nocloud" ELSE "write_user_data"

(* C14: create_user issues the removal of 99-fake_cloud.cfg if and only if   *)
(* the image type is 'ubuntu', as its last command after user-data; for      *)
(* 'core20' it writes only 99_nocloud.cfg after the mkdir, and for every     *)
(* other type it writes meta-data and then user-data.                        *)
C14_FragmentRemovedIffUbuntu ==
    [][ Mux =>
        /\ (pc = "create_user" /\ last' = "rm_fake_cloud") =>
              (image[1] = "ubuntu" /\ last = "write_user_data" /\ last_ok)
        /\ (pc = "create_user" /\ last' = "write_99_nocloud") =>
              (image[1] = "core20" /\ last = "mkdir" /\ last_ok)
        /\ (pc = "create_user" /\ last' = "write_meta_data") =>
              (image[1] # "core20" /\ last = "mkdir" /\ last_ok)
        /\ (pc = "create_user" /\ last' = "write_user_data") =>
              (image[1] # "core20" /\ last = "write_meta_data" /\ last_ok)
        /\ (pc = "create_user" /\ pc' = "final_umount"
              /\ pending' = "normal") =>
              (last' = LastInjectionOp(image[1]) /\ last_ok')
        /\ (pc # "create_user") => (last' \notin CreateUserOps \/ last' = last)
      ]_vars

C14_Witness ==
    Mux /\ pc = "final_umount" /\ pending = "normal" /\ image[1] = "ubuntu"
        /\ last = "rm_fake_cloud" /\ last_ok

(* A complete injection into a 'core' image: it ends with user-data.         *)
C14_WitnessCore ==
    Mux /\ pc = "final_umount" /\ pending = "normal" /\ image[1] = "core"
        /\ last = "write_user_data" /\ last_ok

(* C15: at most one mount made by remote_mount is in place on the control    *)
(* host, and no mount is in place when the next mount command is about to be *)
(* issued, whatever the outcome of the earlier unmount command.              *)
C15_NoTwoMounts ==
    Mux => /\ mounts <= 1
           /\ pc \in {"detect_mount", "final_mount"} => mounts = 0

C17_BestEffortContinues ==
    [][ Mux =>
        /\ (last' \in {"stale_umount", "sync", "hook"} /\ pc # "done") =>
              (pc' # "done" /\ result' = "")
        /\ (pc = "stale_umount" /\ last' = "stale_umount") => pc' = "flash"
        /\ (last = "stale_umount" /\ last' # last) => last' = "flash"
        /\ (pc = "sync" /\ last' = "sync") => pc' = "hdparm"
        /\ (last = "sync" /\ last' # last) => last' = "hdparm"
        /\ (pc = "hooks" /\ pc' # "hooks") =>
              (step = config.post_provision_script /\ pc' = "switch_device")
        /\ (pc = "hooks" /\ pc' = "hooks" /\ step' # step) =>
              (last' = "hook" /\ step' = step + 1)
        /\ (pc = "hooks" /\ last' # last) => last' = "hook"
        /\ (pc = "switch_device" /\ last' # last) => last' = "switch_device"
        /\ (pc = "detect_mount" /\ pc' # pc /\ ~last_ok') =>
              (/\ last' = "mount" /\ result' = ""
               /\ idx = Len(dev_list) /\ pc' = "final_mount")
        /\ (pc = "detect_mount" /\ pc' = pc /\ dev' # dev) =>
              (/\ last' = "mount" /\ ~last_ok' /\ result' = ""
               /\ idx' = idx + 1 /\ dev' = dev_list[idx + 1])
      ]_vars

C17_Witness ==
    Mux /\ pc = "hooks" /\ last = "hook" /\ ~last_ok /\ step = 2

(* Commands of the steps that are not best-effort and hold no mount: their   *)
(* failure is raised out of provision at once.                               *)
AbortingOps ==
    {"switch_local", "flash", "hdparm", "lsblk", "final_mount",
     "switch_device", "reboot"}

(* C18: a failure of a step that is not best-effort ends the run with that   *)
(* failure and no command of a later step is issued: the failing command is  *)
(* the last one of the run, except that a failed credential write is         *)
(* followed by the unmount of the held mount, after which the run ends with  *)
(* the failure of the credential write.                                      *)
C18_FirstFailureEndsRun ==
    [][ Mux =>
        /\ (pc # "done" /\ last' \in AbortingOps /\ ~last_ok') =>
              (pc' = "done" /\ result' \notin {"", "success"})
        /\ (pc = "create_user" /\ ~last_ok') =>
              (pc' = "final_umount" /\ pending' = "ProvisioningError")
        /\ (pc = "final_umount" /\ pending # "normal") =>
              (/\ last' = "final_umount" /\ pc' = "done"
               /\ result' = pending)
        /\ (pc = "done") => (pc' = "done" /\ last' = last)
      ]_vars

(* C19: the boot check is bounded: every attempt starts while less than 600  *)
(* seconds have passed and takes at least the 10 seconds of its sleep and at *)
(* most 60 seconds more; hence at most 60 attempts are made and the loop is  *)
(* over no later than 670 seconds after its start.                           *)
C19_BootLoopBounded ==
    [][ Mux =>
        /\ attempts' # attempts =>
              (/\ attempts' = attempts + 1
               /\ now < BootBudget
               /\ now' >= now + BootSleep
               /\ now' <= now + BootSleep + BootAttemptTimeout)
        /\ attempts' = attempts => now' = now
        /\ now' >= BootSleep * attempts'
        /\ attempts' <= BootBudget \div BootSleep
        /\ now' <= BootBudget + BootSleep + BootAttemptTimeout
        /\ (pc = "boot" /\ pc' = "done" /\ attempts' = attempts) =>
              (now >= BootBudget /\ result' = "ProvisioningError")
      ]_vars

(* The largest number of attempts: every one fails at once.                  *)
C19_Witness ==
    Mux /\ Done /\ attempts = BootBudget \div BootSleep /\ now = BootBudget
        /\ result = "ProvisioningError"

(* An attempt started just within the budget that runs into its timeout.     *)
C19_WitnessLate ==
    Mux /\ pc = "boot" /\ now = BootBudget + BootAttemptTimeout
        /\ last = "boot_attempt" /\ ~last_ok

(* C20: a run of MuxPi.provision never waits forever: in every state that is *)
(* not terminal some step of the run or of the transfer-server worker can be *)
(* taken, also when the worker exits before it reports its port.             *)
C20_NeverWaitsForever ==
    Mux => (Done \/ ENABLED Next)
====
